---- MODULE Spec2Model ----
(***************************************************************************)
(* claude-cli-bridge: an HTTP gateway that turns OpenAI-style chat         *)
(* completion requests into invocations of the `claude -p` CLI.            *)
(*                                                                         *)
(* The model covers the session tracker (sessions.ts), the format          *)
(* translator (translate.ts), the CLI adapter (claude.ts) and the request  *)
(* orchestrator (server.ts).  Text is a sequence of UTF-16 code units, so  *)
(* that the conversation fingerprint is hashed the way the code hashes it. *)
(***************************************************************************)
EXTENDS Integers, Sequences, FiniteSets, TLC

VARIABLES
    sessions,     \* SessionTracker.sessions : conversation key -> Session
    now,          \* Date.now(), in model time units
    uuidCount,    \* number of identifiers randomUUID() has handed out
    hist,         \* the client's current message list (ends with a user message)
    nreq,         \* number of chat-completion requests received so far
    inv,          \* per request slot: the backend invocation the request made
    res,          \* per request slot: the http.ServerResponse
    hs,           \* per request slot: position of the handler and of its child process
    lastGet,      \* record of the most recent SessionTracker.get call
    ret,          \* record of the most recent direct call of a function
    cleanupInterval \* SessionTracker.cleanupInterval: the timer of the periodic cleanup

vars == <<sessions, now, uuidCount, hist, nreq, inv, res, hs, lastGet, ret, cleanupInterval>>

----------------------------------------------------------------------------
(* Bounds of the model *)

MaxTime == 2
MaxReqs == 2
MaxSlots == 2
MaxLines == 1
MaxStreamLines == 3
MaxMsgs == 5
MaxTouches == 3
MaxCreates == 3
MaxDestroys == 2
MaxListLen == 3
MaxUpper == 4

(* config.sessionTtlMs, in model time units *)
TtlMs == 1

(* config.maxTurns *)
ConfigMaxTurns == 15

(* text.substring(0, 200) in makeKey; messages.slice(0, 3) in makeKey *)
FingerprintChars == 200
FingerprintMessages == 3

(* message.substring(0, 200) in handleError *)
ErrorExcerptChars == 200

----------------------------------------------------------------------------
(* Text: sequences of character codes *)

Str_user == <<117, 115, 101, 114>>
Str_assistant == <<97, 115, 115, 105, 115, 116, 97, 110, 116>>
Str_system == <<115, 121, 115, 116, 101, 109>>
Str_UserLabel == <<85, 115, 101, 114, 58, 32>>
Str_AssistantLabel == <<65, 115, 115, 105, 115, 116, 97, 110, 116, 58, 32>>
Ch_colon == 58
Ch_bar == 124
Ch_space == 32
Ch_newline == 10

RoleText(role) ==
    CASE role = "user" -> Str_user
      [] role = "assistant" -> Str_assistant
      [] role = "system" -> Str_system

(* Array.prototype.join on a list of texts *)
RECURSIVE Join(_, _)
Join(texts, sep) ==
    IF Len(texts) = 0 THEN <<>>
    ELSE IF Len(texts) = 1 THEN texts[1]
    ELSE texts[1] \o sep \o Join(Tail(texts), sep)

(* String.prototype.substring(0, n) *)
Substring0(text, n) == IF Len(text) <= n THEN text ELSE SubSeq(text, 1, n)

(* Message content: a string, or an array of typed parts whose text may be absent *)
StrContent(text) == [kind |-> "string", text |-> text, parts |-> <<>>]
PartsContent(parts) == [kind |-> "array", text |-> <<>>, parts |-> parts]
TextPart(text) == [type |-> "text", hasText |-> TRUE, text |-> text]
ImagePart == [type |-> "image_url", hasText |-> FALSE, text |-> <<>>]
Msg(role, content) == [role |-> role, content |-> content]

NullText == [isNull |-> TRUE, text |-> <<>>]
SomeText(text) == [isNull |-> FALSE, text |-> text]

----------------------------------------------------------------------------
(* sessions.ts: conversation key *)

(* The text makeKey takes from a message: string content as is; of an array    *)
(* the parts of type 'text' with a truthy text, joined with a single space.    *)
KeyPartKept(p) == p.type = "text" /\ p.hasText /\ Len(p.text) > 0
KeyPartText(p) == p.text
KeyText(content) ==
    IF content.kind = "string" THEN content.text
    ELSE LET kept == SelectSeq(content.parts, KeyPartKept)
         IN  Join([i \in 1..Len(kept) |-> KeyPartText(kept[i])], <<Ch_space>>)

FingerprintOf(m) ==
    RoleText(m.role) \o <<Ch_colon>> \o Substring0(KeyText(m.content), FingerprintChars)

Fingerprint(messages) ==
    LET first == Substring0(messages, FingerprintMessages)
    IN  Join([i \in 1..Len(first) |-> FingerprintOf(first[i])], <<Ch_bar>>)

(* hash = ((hash << 5) - hash + c) | 0 on a 32-bit integer held as two 16-bit  *)
(* halves <<hi, lo>> (two's complement)                                        *)
HashStep(h, c) ==
    LET lo == 31 * h[2] + c
        hi == 31 * h[1] + (lo \div 65536)
    IN  <<hi % 65536, lo % 65536>>

RECURSIVE HashFrom(_, _, _)
HashFrom(text, i, h) ==
    IF i > Len(text) THEN h ELSE HashFrom(text, i + 1, HashStep(h, text[i]))

(* Math.abs of a 32-bit two's complement value *)
Abs32(h) ==
    IF h[1] < 32768 THEN h
    ELSE LET lo == (65536 - h[2]) % 65536
             hi == (65535 - h[1] + (IF h[2] = 0 THEN 1 ELSE 0)) % 65536
         IN  <<hi, lo>>

(* A key is <<prefix, hi, lo>>: an explicit identifier <<id, 0, 0>>, or        *)
(* 'conv-' followed by the base-36 digits of |hash| (one-to-one on |hash|).    *)
NoHeader == "none"
makeKey(conversationId, messages) ==
    IF conversationId # NoHeader THEN <<conversationId, 0, 0>>
    ELSE LET a == Abs32(HashFrom(Fingerprint(messages), 1, <<0, 0>>))
         IN  <<"conv-", a[1], a[2]>>

----------------------------------------------------------------------------
(* sessions.ts: SessionTracker *)

Has(S, key) == key \in DOMAIN S
Remove(S, key) == [k \in DOMAIN S \ {key} |-> S[k]]
Put(S, key, session) == [k \in DOMAIN S \cup {key} |-> IF k = key THEN session ELSE S[k]]

(* Variant of GetExpired: the comparison written as >= *)
GetExpired_AtBoundary(S, key, t) == Has(S, key) /\ t - S[key].lastUsedAt >= TtlMs

(* get: the entry is dropped when Date.now() - lastUsedAt > ttlMs *)
GetExpired(S, key, t) == Has(S, key) /\ t - S[key].lastUsedAt > TtlMs
(* Variant of GetFound: the lookup never finds the entry *)
GetFound_Never(S, key, t) == FALSE

GetFound(S, key, t) == Has(S, key) /\ ~GetExpired(S, key, t)
GetSessions(S, key, t) == IF GetExpired(S, key, t) THEN Remove(S, key) ELSE S

(* create: a zeroed session under a fresh identifier *)
NewSession(uuid, t) ==
    [claudeSessionId |-> uuid, turnCount |-> 0, lastUsedAt |-> t, messageCount |-> 0]
CreateSessions(S, key, uuid, t) == Put(S, key, NewSession(uuid, t))

(* Variant of Touched: the touch also replaces the identifier *)
Touched_NewId(session, t) ==
    [session EXCEPT !.lastUsedAt = t, !.turnCount = @ + 1, !.messageCount = @ + 1,
                    !.claudeSessionId = @ + 1]

(* touch *)
Touched(session, t) ==
    [session EXCEPT !.lastUsedAt = t, !.turnCount = @ + 1, !.messageCount = @ + 1]
(* Variant of TouchSessions: an absent key gets an entry *)
TouchSessions_Upsert(S, key, t) ==
    IF Has(S, key) THEN [S EXCEPT ![key] = Touched(S[key], t)]
    ELSE Put(S, key, Touched(NewSession(0, t), t))

TouchSessions(S, key, t) ==
    IF Has(S, key) THEN [S EXCEPT ![key] = Touched(S[key], t)] ELSE S

(* delete *)
DeleteSessions(S, key) == Remove(S, key)

(* Variant of Size: only the entries whose TTL has not elapsed are counted *)
Size_Unexpired(S) == Cardinality({k \in DOMAIN S : ~(now - S[k].lastUsedAt > TtlMs)})

(* get size(): this.sessions.size *)
Size(S) == Cardinality(DOMAIN S)

(* cleanup *)
CleanupSessions(S, t) ==
    [k \in {x \in DOMAIN S : ~(t - S[x].lastUsedAt > TtlMs)} |-> S[k]]

----------------------------------------------------------------------------
(* translate.ts *)

(* extractText: string content as is; of an array the parts of type 'text'     *)
(* whose text is a string, joined with a newline.                              *)
ExtractPartKept(p) == p.type = "text" /\ p.hasText
ExtractPartText(p) == p.text
extractText(content) ==
    IF content.kind = "string" THEN content.text
    ELSE LET kept == SelectSeq(content.parts, ExtractPartKept)
         IN  Join([i \in 1..Len(kept) |-> ExtractPartText(kept[i])], <<Ch_newline>>)

IsSystem(m) == m.role = "system"

(* Variant of IsNotSystem: the system messages are rendered into the prompt too *)
IsNotSystem_All(m) == TRUE

IsNotSystem(m) == m.role # "system"
MessageText(m) == extractText(m.content)
Labelled(m) ==
    IF m.role = "user" THEN Str_UserLabel \o extractText(m.content)
    ELSE IF m.role = "assistant" THEN Str_AssistantLabel \o extractText(m.content)
    ELSE extractText(m.content)

FirstTurnSystemPrompt(messages) ==
    LET systemMessages == SelectSeq(messages, IsSystem)
    IN  IF Len(systemMessages) > 0
        THEN SomeText(Join([i \in 1..Len(systemMessages) |-> MessageText(systemMessages[i])], <<Ch_newline>>))
        ELSE NullText

translateFirstTurn(messages) ==
    [threw |-> FALSE,
     prompt |-> LET conversation == SelectSeq(messages, IsNotSystem)
               IN  Join([i \in 1..Len(conversation) |-> Labelled(conversation[i])],
                        <<Ch_newline, Ch_newline>>),
     systemPrompt |-> FirstTurnSystemPrompt(messages),
     isFirstTurn |-> TRUE]

HasUser(messages) == \E i \in 1..Len(messages) : messages[i].role = "user"
(* Variant of LastUserIndex: the list is searched from the front *)
LastUserIndex_First(messages) ==
    CHOOSE i \in 1..Len(messages) :
        /\ messages[i].role = "user"
        /\ \A j \in 1..(i - 1) : messages[j].role # "user"

(* [...messages].reverse().find(m => m.role === 'user'), as an index of messages *)
LastUserIndex(messages) ==
    CHOOSE i \in 1..Len(messages) :
        /\ messages[i].role = "user"
        /\ \A j \in (i + 1)..Len(messages) : messages[j].role # "user"

(* Variant of ContinueTurnSystemPrompt: the system messages are passed on again *)
ContinueTurnSystemPrompt_Kept(messages) == FirstTurnSystemPrompt(messages)

ContinueTurnSystemPrompt(messages) == NullText

translateContinueTurn(messages) ==
    IF ~HasUser(messages)
    THEN [threw |-> TRUE, prompt |-> <<>>, systemPrompt |-> NullText, isFirstTurn |-> FALSE]
    ELSE [threw |-> FALSE,
          prompt |-> extractText(messages[LastUserIndex(messages)].content),
          systemPrompt |-> ContinueTurnSystemPrompt(messages),
          isFirstTurn |-> FALSE]

(* mapModel: the model field of the request is absent, or a text *)
Str_haiku == <<104, 97, 105, 107, 117>>
Str_opus == <<111, 112, 117, 115>>
Str_sonnet == <<115, 111, 110, 110, 101, 116>>
Str_claude_opus == <<99, 108, 97, 117, 100, 101, 45>> \o Str_opus

NoModel == [present |-> FALSE, text |-> <<>>]
ModelName(text) == [present |-> TRUE, text |-> text]

(* Variant of ToLowerCase: the name is compared as it was written *)
ToLowerCase_AsIs(text) == text

(* String.prototype.toLowerCase on the letters A-Z *)
ToLowerCase(text) ==
    [i \in 1..Len(text) |-> IF text[i] >= 65 /\ text[i] <= 90 THEN text[i] + 32 ELSE text[i]]

(* String.prototype.includes *)
TextIncludes(text, token) ==
    \E i \in 1..(Len(text) - Len(token) + 1) : SubSeq(text, i, i + Len(token) - 1) = token

(* if (!requestModel): undefined and the empty string are both falsy *)
mapModel(requestModel, defaultModel) ==
    IF ~requestModel.present \/ Len(requestModel.text) = 0 THEN defaultModel
    ELSE LET normalized == ToLowerCase(requestModel.text)
         IN  IF TextIncludes(normalized, Str_haiku) THEN "haiku"
             ELSE IF TextIncludes(normalized, Str_opus) THEN "opus"
             ELSE IF TextIncludes(normalized, Str_sonnet) THEN "sonnet"
             ELSE defaultModel

(* One SSE data unit.  formatSSEChunk gives one unit; formatSSEDone gives the  *)
(* finish_reason 'stop' chunk followed by the [DONE] sentinel.                 *)
Unit(kind, text, src) == [kind |-> kind, text |-> text, src |-> src]
formatSSEChunk(text, src) == <<Unit("chunk", text, src)>>
formatSSEDone == <<Unit("stop", <<>>, 0), Unit("[DONE]", <<>>, 0)>>

----------------------------------------------------------------------------
(* claude.ts *)

Flag(s) == [kind |-> "flag", str |-> s, num |-> 0, text |-> <<>>]
StrArg(s) == [kind |-> "str", str |-> s, num |-> 0, text |-> <<>>]
NumArg(n) == [kind |-> "num", str |-> "", num |-> n, text |-> <<>>]
TextArg(t) == [kind |-> "text", str |-> "", num |-> 0, text |-> t]

ConfigTools == "Bash,Read,Write,Edit,Glob,Grep"
ConfigDefaultModel == "sonnet"

(* Variant of SessionArgs: the continuation branch is missing *)
SessionArgs_AlwaysNew(opts) == <<Flag("--session-id"), NumArg(opts.sessionId)>>

SessionArgs(opts) ==
    IF opts.continueSession
    THEN <<Flag("--resume"), NumArg(opts.sessionId)>>
    ELSE <<Flag("--session-id"), NumArg(opts.sessionId)>>

FormatArgs(opts) ==
    IF opts.stream
    THEN <<Flag("--output-format"), StrArg("stream-json"), Flag("--verbose"),
           Flag("--include-partial-messages")>>
    ELSE <<Flag("--output-format"), StrArg("json")>>

(* if (opts.systemPrompt): null and the empty string are both falsy *)
SystemPromptArgs(opts) ==
    IF ~opts.systemPrompt.isNull /\ Len(opts.systemPrompt.text) > 0
    THEN <<Flag("--system-prompt"), TextArg(opts.systemPrompt.text)>>
    ELSE <<>>

buildArgs(opts) ==
    <<Flag("-p"), Flag("--model"), StrArg(opts.model)>>
    \o SessionArgs(opts)
    \o FormatArgs(opts)
    \o <<Flag("--allowedTools"), StrArg(opts.tools)>>
    \o SystemPromptArgs(opts)
    \o <<Flag("--max-turns"), NumArg(ConfigMaxTurns)>>

(* callClaudeSync: buildArgs({ ...opts, stream: false }) *)
SyncCallOpts(opts) == [opts EXCEPT !.stream = FALSE]

(* Variant of StreamCallOpts: the stream flag is used as it was given *)
StreamCallOpts_AsGiven(opts) == opts

(* callClaudeStream: buildArgs({ ...opts, stream: true }) *)
StreamCallOpts(opts) == [opts EXCEPT !.stream = TRUE]

----------------------------------------------------------------------------
(* server.ts: handleError *)

(* An error is the set of phrases its message contains and its `killed` flag *)
Err(phrases, killed) == [phrases |-> phrases, killed |-> killed]

Includes(error, phrase) == phrase \in error.phrases

(* Variant of IsRateLimit: 'quota' is not among the phrases *)
IsRateLimit_NoQuota(error) ==
    \/ Includes(error, "rate limit")
    \/ Includes(error, "cooldown") \/ Includes(error, "capacity")

IsRateLimit(error) ==
    \/ Includes(error, "rate limit") \/ Includes(error, "quota")
    \/ Includes(error, "cooldown") \/ Includes(error, "capacity")
IsAuth(error) ==
    \/ Includes(error, "not authorized") \/ Includes(error, "credential")
    \/ Includes(error, "login")
IsTimeout(error) ==
    error.killed \/ Includes(error, "ETIMEDOUT") \/ Includes(error, "timeout")
IsSessionError(error) ==
    Includes(error, "session") \/ Includes(error, "Session not found")

ErrorBody(status, type, code) == [status |-> status, type |-> type, code |-> code]

handleErrorBody(error) ==
    IF IsRateLimit(error) THEN ErrorBody(429, "rate_limit_error", "rate_limit_exceeded")
    ELSE IF IsAuth(error) THEN ErrorBody(401, "authentication_error", "invalid_api_key")
    ELSE IF IsTimeout(error) THEN ErrorBody(504, "timeout_error", "timeout")
    ELSE IF IsSessionError(error) THEN ErrorBody(502, "server_error", "session_expired")
    ELSE ErrorBody(502, "server_error", "internal_error")

(* Variant of handleErrorSessions: any mention of the session deletes the entry *)
handleErrorSessions_AnyMention(S, error, convKey) ==
    IF IsSessionError(error) THEN DeleteSessions(S, convKey) ELSE S

handleErrorSessions(S, error, convKey) ==
    IF ~IsRateLimit(error) /\ ~IsAuth(error) /\ ~IsTimeout(error) /\ IsSessionError(error)
    THEN DeleteSessions(S, convKey)
    ELSE S

----------------------------------------------------------------------------
(* http.ServerResponse *)

NotEnded == 0 - 1
NewResponse ==
    [status |-> 0, headersSent |-> FALSE, out |-> <<>>, endedAt |-> NotEnded,
     body |-> ErrorBody(0, "", "")]
WriteHead(rs, status) == [rs EXCEPT !.status = status, !.headersSent = TRUE]
Write(rs, units) == [rs EXCEPT !.out = @ \o units]
End(rs) == IF rs.endedAt = NotEnded THEN [rs EXCEPT !.endedAt = Len(rs.out)] ELSE rs
WritableEnded(rs) == rs.endedAt # NotEnded
EndJson(rs, status, body) == End([WriteHead(rs, status) EXCEPT !.body = body])

----------------------------------------------------------------------------
(* Backend stream events: one parsed line of the CLI's stream-json output *)

Event(type, inner, block, dtype, text) ==
    [type |-> type, inner |-> inner, block |-> block, dtype |-> dtype, text |-> text]

Txt_x == <<120>>
Txt_y == <<121>>

ResultEvent == Event("result", "none", "none", "none", <<>>)
TextDelta(text) == Event("stream_event", "content_block_delta", "none", "text_delta", text)
ThinkingStart == Event("stream_event", "content_block_start", "thinking", "none", <<>>)
BlockStop == Event("stream_event", "content_block_stop", "none", "none", <<>>)

(* A line is a parsed event, or text that JSON.parse rejects *)
JsonLine(ev) == [json |-> TRUE, ev |-> ev]
NoiseLine == [json |-> FALSE, ev |-> Event("", "none", "none", "none", <<>>)]

CoreLines == {JsonLine(ResultEvent), JsonLine(TextDelta(Txt_x))}

AllLines ==
    { JsonLine(e) : e \in
        { ResultEvent,
          Event("assistant", "none", "none", "none", <<>>),
          Event("assistant", "content_block_delta", "none", "text_delta", Txt_x),
          Event("stream_event", "none", "none", "none", <<>>),
          ThinkingStart,
          Event("stream_event", "content_block_start", "thinking", "text_delta", Txt_x),
          Event("stream_event", "content_block_start", "text", "none", <<>>),
          BlockStop,
          TextDelta(Txt_x),
          TextDelta(Txt_y),
          TextDelta(<<>>),
          Event("stream_event", "content_block_delta", "none", "thinking_delta", Txt_x),
          Event("stream_event", "content_block_delta", "none", "thinking_delta", <<>>) } }
    \cup {NoiseLine}

----------------------------------------------------------------------------
(* server.ts: handleStream, the body of the for-await loop for one event *)

IsThinkingStart(ev) == ev.inner = "content_block_start" /\ ev.block = "thinking"
IsBlockStop(ev) == ev.inner = "content_block_stop"

(* Variant of InsideAfter: content_block_stop does not clear the flag *)
InsideAfter_NeverCloses(inside, ev) ==
    IF ev.type = "stream_event" /\ ev.inner # "none"
    THEN IF IsThinkingStart(ev) THEN TRUE ELSE inside
    ELSE inside

(* insideThinkingBlock after the event *)
InsideAfter(inside, ev) ==
    IF ev.type = "stream_event" /\ ev.inner # "none"
    THEN IF IsThinkingStart(ev) THEN TRUE
         ELSE IF IsBlockStop(ev) /\ inside THEN FALSE
         ELSE inside
    ELSE inside

(* Variant of Forwards: the `if (insideThinkingBlock) continue` line is missing *)
Forwards_NoBlockFilter(inside, ev) ==
    /\ ev.type = "stream_event" /\ ev.inner # "none"
    /\ ~IsThinkingStart(ev)
    /\ ~(IsBlockStop(ev) /\ inside)
    /\ ev.dtype # "thinking_delta"
    /\ Len(ev.text) > 0

(* whether the event reaches res.write(formatSSEChunk(...)) *)
Forwards(inside, ev) ==
    /\ ev.type = "stream_event" /\ ev.inner # "none"
    /\ ~IsThinkingStart(ev)
    /\ ~(IsBlockStop(ev) /\ inside)
    /\ ~inside
    /\ ev.dtype # "thinking_delta"
    /\ Len(ev.text) > 0

----------------------------------------------------------------------------
(* Requests the environment sends *)

Txt_a == <<97>>
Txt_b == <<98>>
Txt_r == <<114>>
Txt_s == <<115>>

InitialLists ==
    { <<Msg("system", StrContent(Txt_s)), Msg("user", StrContent(Txt_a))>>,
      <<Msg("user", StrContent(Txt_a)), Msg("assistant", StrContent(Txt_r)),
        Msg("user", PartsContent(<<TextPart(Txt_b), ImagePart>>))>>,
      <<Msg("system", StrContent(Txt_s))>> }

Headers == {NoHeader, "c1"}
RequestModels == {ModelName(Str_claude_opus)}
StderrTexts == {{}, {"quota"}, {"rate limit"}, {"cooldown"}, {"Session not found"}}
StreamStderrTexts == {{}, {"Session not found"}}
ExitCodes == {0, 1}
ExitNull == 0 - 1

----------------------------------------------------------------------------
(* claude.ts: what a failed invocation throws *)

(* execSync on a non-zero exit throws 'Command failed: <command line>' followed *)
(* by the captured stderr; the command line of a first turn holds --session-id *)
CommandPhrases(args) ==
    IF \E i \in 1..Len(args) : args[i] = Flag("--session-id") THEN {"session"} ELSE {}

SyncError(outcome, stderr, args) ==
    CASE outcome = "exit" -> Err(stderr \cup CommandPhrases(args), FALSE)
      [] outcome = "timeout" -> Err({"ETIMEDOUT"}, FALSE)
      [] outcome = "badjson" -> Err({}, FALSE)

(* status of the shell that execSync ran: null when it was killed on timeout *)
SyncExitCode(outcome) ==
    CASE outcome = "exit" -> 1
      [] outcome = "timeout" -> ExitNull
      [] OTHER -> 0

SyncOutcomes ==
    {<<"ok", {}>>, <<"timeout", {}>>, <<"badjson", {}>>} \cup {<<"exit", e>> : e \in StderrTexts}

(* callClaudeStream: new Error(stderr || `Claude CLI exited with code ${code}`) *)
StreamError(stderr) == Err(stderr, FALSE)

(* the 'close' listener: any code other than 0 and null rejects *)
CloseRejects(code) == code # 0 /\ code # ExitNull

----------------------------------------------------------------------------
(* server.ts: handleChatCompletion up to the backend invocation *)

Slots == 1..MaxSlots

Dispatch(convKey, requestModel, messages, stream) ==
    LET found == GetFound(sessions, convKey, now)
        S1 == GetSessions(sessions, convKey, now)
        S2 == IF found THEN S1 ELSE CreateSessions(S1, convKey, uuidCount + 1, now)
        translated == IF found THEN translateContinueTurn(messages)
                      ELSE translateFirstTurn(messages)
        opts == [model |-> mapModel(requestModel, ConfigDefaultModel),
                 systemPrompt |-> translated.systemPrompt,
                 sessionId |-> S2[convKey].claudeSessionId,
                 continueSession |-> ~translated.isFirstTurn,
                 stream |-> stream,
                 tools |-> ConfigTools]
    IN  [convKey |-> convKey, found |-> found, sessions |-> S2,
         translated |-> translated, opts |-> opts,
         get |-> [key |-> convKey, had |-> Has(sessions, convKey),
                  age |-> IF Has(sessions, convKey)
                          THEN now - sessions[convKey].lastUsedAt ELSE 0,
                  returned |-> found, kept |-> Has(S1, convKey)]]

HasSystemMessage(messages) == \E i \in 1..Len(messages) : messages[i].role = "system"

(* What the request hands to the child process: argv and stdin *)
Invocation(d, callOpts, conversationId, messages) ==
    [made |-> TRUE, convKey |-> d.convKey, hdr |-> conversationId,
     nmsgs |-> Len(messages), hasSystem |-> HasSystemMessage(messages),
     opts |-> callOpts, args |-> buildArgs(callOpts), stdin |-> d.translated.prompt]

NoInvocation ==
    [made |-> FALSE, convKey |-> <<NoHeader, 0, 0>>, hdr |-> NoHeader,
     nmsgs |-> 0, hasSystem |-> FALSE,
     opts |-> [model |-> "", systemPrompt |-> NullText, sessionId |-> 0,
               continueSession |-> FALSE, stream |-> FALSE, tools |-> ""],
     args |-> <<>>, stdin |-> <<>>]

(* The request body: whether it is JSON text, what JSON.parse gives, and what *)
(* the value's messages property is                                          *)
Body(json, kind, messages) == [json |-> json, kind |-> kind, messages |-> messages]
ValidBody == Body(TRUE, "object", "list")
InvalidBodies ==
    { Body(FALSE, "none", "undefined"),
      Body(TRUE, "null", "undefined"),
      Body(TRUE, "scalar", "undefined"),
      Body(TRUE, "object", "undefined"),
      Body(TRUE, "object", "nonArray"),
      Body(TRUE, "object", "empty") }

(* !parsed.messages || !Array.isArray(parsed.messages) || length === 0 *)
MessagesRejected(body) == body.messages \in {"undefined", "falsy", "nonArray", "empty"}

(* handleChatCompletion up to the validation: the reply it sends, or that it *)
(* throws (reading a property of null), or that the request goes on          *)
Validation(body) ==
    IF ~body.json
    THEN [threw |-> FALSE, ok |-> FALSE,
          reply |-> ErrorBody(400, "invalid_request_error", "parse_error")]
    ELSE IF body.kind = "null"
    THEN [threw |-> TRUE, ok |-> FALSE,
          reply |-> ErrorBody(500, "server_error", "internal_error")]
    ELSE IF MessagesRejected(body)
    THEN [threw |-> FALSE, ok |-> FALSE,
          reply |-> ErrorBody(400, "invalid_request_error", "missing_messages")]
    ELSE [threw |-> FALSE, ok |-> TRUE, reply |-> ErrorBody(200, "", "")]

Handler(stream, pc, convKey) ==
    [stream |-> stream, pc |-> pc, convKey |-> convKey, insideThinkingBlock |-> FALSE,
     events |-> <<>>, nlines |-> 0, touches |-> 0, closeEmitted |-> FALSE, exitCode |-> 0,
     stderr |-> {}, spawned |-> 0,
     body |-> ValidBody]

IdleHandler == Handler(FALSE, "idle", <<NoHeader, 0, 0>>)

(* A slot is free when no handler and no child process of an earlier request *)
(* is still using it                                                          *)
SlotFree(r) ==
    \/ hs[r].pc = "idle"
    \/ hs[r].pc = "done" /\ (~hs[r].stream \/ hs[r].closeEmitted)
HasFreeSlot == \E r \in Slots : SlotFree(r)

(* The server process is alive: no uncaught exception has ended it *)
Running == \A r \in Slots : hs[r].pc # "crashed"

(* execSync is running: the one thread of the process is inside it *)
Blocked == \E r \in Slots : hs[r].pc = "blocked"

(* The event loop can run a callback *)
Responsive == Running /\ ~Blocked
FreeSlot == CHOOSE r \in Slots : SlotFree(r) /\ \A q \in Slots : SlotFree(q) => r <= q

(* The objects of a request whose handler has returned and whose child process *)
(* is gone are unreachable; they are dropped when the next request arrives     *)
Finished(r) == hs[r].pc = "done" /\ (~hs[r].stream \/ hs[r].closeEmitted)
Live(f, blank) == [q \in Slots |-> IF Finished(q) THEN blank ELSE f[q]]

(* Variant of BackendCalls: a failed call is tried once more *)
BackendCalls_RetryOnFailure(failed) == IF failed THEN 2 ELSE 1

(* Number of times one run of handleChatCompletion starts the CLI: the call is *)
(* made once, and the catch branch classifies the error without calling again  *)
BackendCalls(failed) == 1

(* A request whose translation throws: caught by the server's request handler *)
Unhandled(r, d) ==
    /\ sessions' = d.sessions
    /\ uuidCount' = IF d.found THEN uuidCount ELSE uuidCount + 1
    /\ lastGet' = d.get
    /\ nreq' = nreq + 1
    /\ inv' = [Live(inv, NoInvocation) EXCEPT ![r] = NoInvocation]
    /\ res' = [Live(res, NewResponse) EXCEPT ![r] =
                 EndJson(NewResponse, 500, ErrorBody(500, "server_error", "internal_error"))]
    /\ hs' = [Live(hs, IdleHandler) EXCEPT ![r] = Handler(FALSE, "done", d.convKey)]
    /\ UNCHANGED <<now, hist, ret, cleanupInterval>>

(* A request that does not pass the validation: replied to at once, or thrown *)
(* to the server's request handler, which replies 500                         *)
InvalidRequest(body) ==
    /\ Responsive
    /\ nreq < MaxReqs
    /\ HasFreeSlot
    /\ ~Validation(body).ok
    /\ \E r \in {FreeSlot} :
          /\ res' = [Live(res, NewResponse) EXCEPT ![r] =
                       EndJson(NewResponse, Validation(body).reply.status,
                               Validation(body).reply)]
          /\ hs' = [Live(hs, IdleHandler) EXCEPT ![r] =
                      [Handler(FALSE, "done", <<NoHeader, 0, 0>>) EXCEPT !.body = body]]
          /\ inv' = [Live(inv, NoInvocation) EXCEPT ![r] = NoInvocation]
    /\ nreq' = nreq + 1
    /\ UNCHANGED <<sessions, now, uuidCount, hist, lastGet, ret, cleanupInterval>>

(* Non-streaming request, up to the call: session management, translation and *)
(* callClaudeSync, whose execSync holds the thread until the CLI has exited    *)
SyncRequest(conversationId, requestModel) ==
    /\ Responsive
    /\ nreq < MaxReqs
    /\ HasFreeSlot
    /\ \E r \in {FreeSlot}, convKey \in {makeKey(conversationId, hist)} :
       \E d \in {Dispatch(convKey, requestModel, hist, FALSE)} :
       \E call \in {Invocation(d, SyncCallOpts(d.opts), conversationId, hist)} :
           IF d.translated.threw THEN Unhandled(r, d)
           ELSE /\ inv' = [Live(inv, NoInvocation) EXCEPT ![r] = call]
                /\ sessions' = d.sessions
                /\ nreq' = nreq + 1
                /\ uuidCount' = IF d.found THEN uuidCount ELSE uuidCount + 1
                /\ lastGet' = d.get
                /\ hs' = [Live(hs, IdleHandler) EXCEPT ![r] =
                           [Handler(FALSE, "blocked", d.convKey) EXCEPT
                               !.spawned = BackendCalls(FALSE)]]
                /\ res' = [Live(res, NewResponse) EXCEPT ![r] = NewResponse]
                /\ UNCHANGED <<now, hist, ret, cleanupInterval>>

(* execSync returns or throws: touch and reply, or handleError and reply *)
SyncReturn(r, outcome) ==
    /\ Running
    /\ hs[r].pc = "blocked"
    /\ hs' = [hs EXCEPT ![r].pc = "done",
                        ![r].touches = IF outcome[1] = "ok" THEN 1 ELSE 0,
                        ![r].exitCode = SyncExitCode(outcome[1]),
                        ![r].stderr = outcome[2],
                        ![r].spawned = BackendCalls(outcome[1] # "ok")]
    /\ IF outcome[1] = "ok"
       THEN /\ sessions' = TouchSessions(sessions, hs[r].convKey, now)
            /\ res' = [res EXCEPT ![r] = EndJson(NewResponse, 200, ErrorBody(200, "", ""))]
       ELSE \E error \in {SyncError(outcome[1], outcome[2], inv[r].args)} :
            \E body \in {handleErrorBody(error)} :
                /\ sessions' = handleErrorSessions(sessions, error, hs[r].convKey)
                /\ res' = [res EXCEPT ![r] = EndJson(NewResponse, body.status, body)]
    /\ UNCHANGED <<now, uuidCount, hist, nreq, inv, lastGet, ret, cleanupInterval>>

(* Streaming request: handleStream writes the head and callClaudeStream spawns *)
(* the child; the handler then waits for the first line                        *)
StreamRequest(conversationId, requestModel, maxReqs) ==
    /\ Responsive
    /\ nreq < maxReqs
    /\ HasFreeSlot
    /\ \E r \in {FreeSlot}, convKey \in {makeKey(conversationId, hist)} :
       \E d \in {Dispatch(convKey, requestModel, hist, TRUE)} :
       \E call \in {Invocation(d, StreamCallOpts(d.opts), conversationId, hist)} :
           IF d.translated.threw THEN Unhandled(r, d)
           ELSE /\ inv' = [Live(inv, NoInvocation) EXCEPT ![r] = call]
                /\ sessions' = d.sessions
                /\ nreq' = nreq + 1
                /\ uuidCount' = IF d.found THEN uuidCount ELSE uuidCount + 1
                /\ lastGet' = d.get
                /\ hs' = [Live(hs, IdleHandler) EXCEPT ![r] =
                           [Handler(TRUE, "reading", d.convKey) EXCEPT
                               !.spawned = BackendCalls(FALSE)]]
                /\ res' = [Live(res, NewResponse) EXCEPT ![r] = WriteHead(NewResponse, 200)]
                /\ UNCHANGED <<now, hist, ret, cleanupInterval>>

----------------------------------------------------------------------------
(* server.ts: handleStream; claude.ts: callClaudeStream *)

(* Variant of OnResult: res.end() is called before the terminal frame is written *)
OnResult_WriteAfterEnd(r) ==
    /\ sessions' = TouchSessions(sessions, hs[r].convKey, now)
    /\ res' = [res EXCEPT ![r] = Write(End(@), formatSSEDone)]

(* result event: touch, terminal frame, end, return *)
OnResult(r) ==
    /\ sessions' = TouchSessions(sessions, hs[r].convKey, now)
    /\ res' = [res EXCEPT ![r] = End(Write(@, formatSSEDone))]

(* Variant of OnCleanEnd: the session is touched a second time *)
OnCleanEnd_TouchTwice(r) ==
    /\ sessions' = TouchSessions(TouchSessions(sessions, hs[r].convKey, now), hs[r].convKey, now)
    /\ res' = [res EXCEPT ![r] = End(Write(@, formatSSEDone))]

(* the sequence ended and 'close' resolved: touch, terminal frame, end *)
OnCleanEnd(r) ==
    /\ sessions' = TouchSessions(sessions, hs[r].convKey, now)
    /\ res' = [res EXCEPT ![r] = End(Write(@, formatSSEDone))]

(* catch: handleError, then error frame, [DONE] and end if still writable *)
OnFailure(r, error) ==
    /\ sessions' = handleErrorSessions(sessions, error, hs[r].convKey)
    /\ res' = [res EXCEPT ![r] =
                 IF WritableEnded(@) THEN @
                 ELSE End(Write(Write(@, <<Unit("error", <<>>, 0)>>),
                                <<Unit("[DONE]", <<>>, 0)>>))]

(* The child writes one line to stdout and the for-await loop takes it *)
StreamLine(r, line, maxLines) ==
    /\ Responsive
    /\ hs[r].pc = "reading"
    /\ ~hs[r].closeEmitted
    /\ hs[r].nlines < maxLines
    /\ IF ~line.json
       THEN /\ hs' = [hs EXCEPT ![r].nlines = @ + 1]
            /\ UNCHANGED <<sessions, res>>
       ELSE LET ev == line.ev
                n == Len(hs[r].events) + 1
            IN  IF ev.type = "result"
                THEN /\ OnResult(r)
                     /\ hs' = [hs EXCEPT ![r].nlines = @ + 1, ![r].events = Append(@, ev),
                                         ![r].touches = @ + 1, ![r].pc = "done"]
                ELSE /\ hs' = [hs EXCEPT ![r].nlines = @ + 1, ![r].events = Append(@, ev),
                                         ![r].insideThinkingBlock = InsideAfter(@, ev)]
                     /\ res' = [res EXCEPT ![r] =
                                  IF Forwards(hs[r].insideThinkingBlock, ev)
                                  THEN Write(@, formatSSEChunk(ev.text, n)) ELSE @]
                     /\ UNCHANGED sessions
    /\ UNCHANGED <<now, uuidCount, hist, nreq, inv, lastGet, ret, cleanupInterval>>

(* spawn could not start the CLI (not on PATH, not executable): the child     *)
(* emits 'error'; callClaudeStream registers no 'error' listener, so the      *)
(* event is thrown as an uncaught exception and the server process ends       *)
SpawnError(r) ==
    /\ Responsive
    /\ hs[r].stream /\ hs[r].pc = "reading"
    /\ hs[r].nlines = 0 /\ ~hs[r].closeEmitted
    /\ hs' = [hs EXCEPT ![r].pc = "crashed"]
    /\ UNCHANGED <<sessions, now, uuidCount, hist, nreq, inv, res, lastGet, ret, cleanupInterval>>

(* The child's stdout has ended and readline has closed: the for-await over rl *)
(* ends and the generator registers its 'close' listener on the child          *)
LoopEnd(r) ==
    /\ Responsive
    /\ hs[r].pc = "reading"
    /\ hs' = [hs EXCEPT ![r].pc = "awaitClose"]
    /\ UNCHANGED <<sessions, now, uuidCount, hist, nreq, inv, res, lastGet, ret, cleanupInterval>>

(* The child has exited and its stdio has closed: it emits 'close' with its   *)
(* exit code, once.  Only a listener registered by then receives it.          *)
ChildClose(r, code, stderr) ==
    /\ Responsive
    /\ hs[r].stream /\ hs[r].pc # "idle" /\ ~hs[r].closeEmitted
    /\ IF hs[r].pc = "awaitClose"
       THEN /\ hs' = [hs EXCEPT ![r].closeEmitted = TRUE, ![r].exitCode = code,
                                ![r].stderr = stderr,
                                ![r].touches = IF CloseRejects(code) THEN @ ELSE @ + 1,
                                ![r].pc = "done"]
            /\ IF CloseRejects(code) THEN OnFailure(r, StreamError(stderr))
               ELSE OnCleanEnd(r)
       ELSE /\ hs' = [hs EXCEPT ![r].closeEmitted = TRUE, ![r].exitCode = code,
                                ![r].stderr = stderr]
            /\ UNCHANGED <<sessions, res>>
    /\ UNCHANGED <<now, uuidCount, hist, nreq, inv, lastGet, ret, cleanupInterval>>

----------------------------------------------------------------------------
(* Environment: clock, periodic cleanup, the client's next turn *)

Tick ==
    /\ now < MaxTime
    /\ now' = now + 1
    /\ UNCHANGED <<sessions, uuidCount, hist, nreq, inv, res, hs, lastGet, ret, cleanupInterval>>

(* The timer made by setInterval in the constructor: whether it is still     *)
(* scheduled, how often destroy() was called, and whether its callback has   *)
(* run since the first of those calls                                        *)
NewInterval == [active |-> TRUE, destroyCalls |-> 0, ranAfterDestroy |-> FALSE]

(* Variant of ClearInterval: the timer stays scheduled *)
ClearInterval_Noop(timer) == timer

(* clearInterval(timer): the timer is unscheduled; on a cleared timer nothing *)
(* happens                                                                     *)
ClearInterval(timer) == [timer EXCEPT !.active = FALSE]

(* the setInterval callback *)
Cleanup ==
    /\ Responsive
    /\ cleanupInterval.active
    /\ sessions' = CleanupSessions(sessions, now)
    /\ sessions' # sessions
    /\ cleanupInterval' = [cleanupInterval EXCEPT
                             !.ranAfterDestroy = @ \/ cleanupInterval.destroyCalls > 0]
    /\ UNCHANGED <<now, uuidCount, hist, nreq, inv, res, hs, lastGet, ret>>

Succeeded(r) ==
    /\ res[r].status = 200 /\ WritableEnded(res[r])
    /\ \A i \in 1..Len(res[r].out) : res[r].out[i].kind # "error"

(* The client appends the assistant's reply and a new user message *)
ClientExtend ==
    /\ Len(hist) + 2 <= MaxMsgs
    /\ \E r \in Slots : inv[r].made /\ inv[r].nmsgs = Len(hist) /\ Succeeded(r)
    /\ hist' = hist \o <<Msg("assistant", StrContent(Txt_r)), Msg("user", StrContent(Txt_b))>>
    /\ UNCHANGED <<sessions, now, uuidCount, nreq, inv, res, hs, lastGet, ret, cleanupInterval>>

----------------------------------------------------------------------------
(* Specifications *)

(* No function has been called directly *)
NoReturn == [call |-> "none"]

Returned(fn, arg, out) == [call |-> fn, input |-> arg, output |-> out]

NoGet == [key |-> <<NoHeader, 0, 0>>, had |-> FALSE, age |-> 0,
          returned |-> FALSE, kept |-> FALSE]

Init ==
    /\ sessions = <<>>
    /\ now = 0
    /\ uuidCount = 0
    /\ hist \in InitialLists
    /\ nreq = 0
    /\ inv = [r \in Slots |-> NoInvocation]
    /\ res = [r \in Slots |-> NewResponse]
    /\ hs = [r \in Slots |-> IdleHandler]
    /\ lastGet = NoGet
    /\ ret = NoReturn
    /\ cleanupInterval = NewInterval

Next ==
    \/ \E c \in Headers, m \in RequestModels : SyncRequest(c, m)
    \/ \E r \in Slots, o \in SyncOutcomes : SyncReturn(r, o)
    \/ \E c \in Headers, m \in RequestModels : StreamRequest(c, m, MaxReqs)
    \/ \E b \in InvalidBodies : InvalidRequest(b)
    \/ \E r \in Slots, l \in CoreLines : StreamLine(r, l, MaxLines)
    \/ \E r \in Slots : LoopEnd(r)
    \/ \E r \in Slots, c \in ExitCodes, e \in StreamStderrTexts : ChildClose(r, c, e)
    \/ \E r \in Slots : SpawnError(r)
    \/ Tick
    \/ Cleanup
    \/ ClientExtend

Spec == Init /\ [][Next]_vars

(* One streaming request and its child process, over every shape of line *)
StreamList == <<Msg("system", StrContent(Txt_s)), Msg("user", StrContent(Txt_a))>>

StreamInit == Init /\ hist = StreamList

StreamNext ==
    \/ \E m \in RequestModels : StreamRequest(NoHeader, m, 1)
    \/ \E l \in AllLines : StreamLine(1, l, MaxStreamLines)
    \/ LoopEnd(1)
    \/ \E c \in ExitCodes \cup {ExitNull}, e \in StreamStderrTexts : ChildClose(1, c, e)

StreamSpec == StreamInit /\ [][StreamNext]_vars

(* The child eventually ends its output and exits, and the event loop runs   *)
(* every callback that is ready; the child need not write another line.      *)
FairNext ==
    \/ \E m \in RequestModels : StreamRequest(NoHeader, m, 1)
    \/ \E l \in CoreLines \cup {NoiseLine} : StreamLine(1, l, MaxStreamLines)
    \/ LoopEnd(1)
    \/ \E c \in ExitCodes \cup {ExitNull}, e \in StreamStderrTexts : ChildClose(1, c, e)

FairStreamSpec ==
    /\ StreamInit /\ [][FairNext]_vars
    /\ WF_vars(LoopEnd(1))
    /\ WF_vars(\E c \in ExitCodes \cup {ExitNull}, e \in StreamStderrTexts : ChildClose(1, c, e))

(* The SessionTracker driven directly through its methods, and read by the   *)
(* health check                                                              *)
TrackerKeys == {<<"c1", 0, 0>>, <<"c2", 0, 0>>}

TrGetRecord(key) ==
    [key |-> key, had |-> Has(sessions, key),
     age |-> IF Has(sessions, key) THEN now - sessions[key].lastUsedAt ELSE 0,
     returned |-> GetFound(sessions, key, now),
     kept |-> Has(GetSessions(sessions, key, now), key)]

TrGet(key) ==
    /\ sessions' = GetSessions(sessions, key, now)
    /\ lastGet' = TrGetRecord(key)
    /\ UNCHANGED <<now, uuidCount, hist, nreq, inv, res, hs, ret, cleanupInterval>>

TrCreate(key) ==
    /\ uuidCount < MaxCreates
    /\ uuidCount' = uuidCount + 1
    /\ sessions' = CreateSessions(sessions, key, uuidCount + 1, now)
    /\ UNCHANGED <<now, hist, nreq, inv, res, hs, lastGet, ret, cleanupInterval>>

TrTouch(key) ==
    /\ Has(sessions, key) => sessions[key].turnCount < MaxTouches
    /\ sessions' = TouchSessions(sessions, key, now)
    /\ UNCHANGED <<now, uuidCount, hist, nreq, inv, res, hs, lastGet, ret, cleanupInterval>>

TrDelete(key) ==
    /\ sessions' = DeleteSessions(sessions, key)
    /\ UNCHANGED <<now, uuidCount, hist, nreq, inv, res, hs, lastGet, ret, cleanupInterval>>

(* destroy(), as the SIGTERM and the SIGINT handler each call it *)
TrDestroy ==
    /\ cleanupInterval.destroyCalls < MaxDestroys
    /\ cleanupInterval' = [ClearInterval(cleanupInterval) EXCEPT !.destroyCalls = @ + 1]
    /\ UNCHANGED <<sessions, now, uuidCount, hist, nreq, inv, res, hs, lastGet, ret>>

(* GET /health: the reply carries sessions.size as activeSessions *)
GetHealth ==
    /\ Responsive
    /\ ret' = Returned("health", <<>>, [status |-> "ok", activeSessions |-> Size(sessions)])
    /\ UNCHANGED <<sessions, now, uuidCount, hist, nreq, inv, res, hs, lastGet,
                   cleanupInterval>>

TrackerNext ==
    \/ GetHealth
    \/ \E k \in TrackerKeys : TrGet(k)
    \/ \E k \in TrackerKeys : TrCreate(k)
    \/ \E k \in TrackerKeys : TrTouch(k)
    \/ \E k \in TrackerKeys : TrDelete(k)
    \/ TrDestroy
    \/ Tick
    \/ Cleanup

TrackerSpec == StreamInit /\ [][TrackerNext]_vars

----------------------------------------------------------------------------
(* The functions of claude.ts, translate.ts and server.ts called directly *)

(* The functions keep no state from one call to the next: a behaviour makes   *)
(* one call                                                                   *)
NoCallYet == ret = NoReturn

Frame == UNCHANGED <<sessions, now, uuidCount, nreq, inv, res, hs, lastGet, cleanupInterval>>

CallOptions ==
    [model : {"haiku", "opus", "sonnet"},
     systemPrompt : {NullText, SomeText(<<>>), SomeText(Txt_s)},
     sessionId : 1..2,
     continueSession : BOOLEAN,
     stream : BOOLEAN,
     tools : {ConfigTools}]

FnCallClaudeSync(opts) ==
    /\ NoCallYet
    /\ ret' = Returned("callClaudeSync", opts, buildArgs(SyncCallOpts(opts)))
    /\ UNCHANGED hist
    /\ Frame

FnCallClaudeStream(opts) ==
    /\ NoCallYet
    /\ ret' = Returned("callClaudeStream", opts, buildArgs(StreamCallOpts(opts)))
    /\ UNCHANGED hist
    /\ Frame

(* Message lists: any role a JSON body can carry (the body is not validated   *)
(* against the Message type), content as a string or as an array of parts     *)
MessageRoles == {"system", "user", "assistant", "tool"}
MessageContents ==
    {StrContent(Txt_a), PartsContent(<<TextPart(Txt_b), ImagePart, TextPart(Txt_a)>>)}
Messages == {Msg(role, content) : role \in MessageRoles, content \in MessageContents}
MessageLists == UNION {[1..n -> Messages] : n \in 1..MaxListLen}

(* translateFirstTurn(messages): filter and map build new arrays, the list    *)
(* passed in is left as it was                                                *)
FnTranslateFirstTurn(messages) ==
    /\ NoCallYet
    /\ ret' = Returned("translateFirstTurn", messages, translateFirstTurn(messages))
    /\ hist' = messages
    /\ Frame

(* translateContinueTurn(messages): reverse() is applied to the copy          *)
(* [...messages], the list passed in is left as it was, also when the call    *)
(* throws                                                                     *)
FnTranslateContinueTurn(messages) ==
    /\ NoCallYet
    /\ ret' = Returned("translateContinueTurn", messages, translateContinueTurn(messages))
    /\ hist' = messages
    /\ Frame

(* Model names: a tier token with any of its letters in upper case, alone or  *)
(* inside other text; names holding two tokens; names holding none; the empty *)
(* name; no name                                                              *)
Tokens == {Str_haiku, Str_opus, Str_sonnet}
Spelling(token, upper) ==
    [i \in 1..Len(token) |-> IF i \in upper THEN token[i] - 32 ELSE token[i]]
Spellings == {Spelling(t, u) : t \in Tokens, u \in SUBSET (1..MaxUpper)}
Str_Prefix == <<99, 45>>
Str_Suffix == <<45, 52>>
Str_gpt == <<103, 112, 116>>
Str_opu_s == <<111, 112, 117, 45, 115>>
NameTexts ==
    {p \o s \o q : p \in {<<>>, Str_Prefix}, s \in Spellings, q \in {<<>>, Str_Suffix}}
    \cup {t \o <<45>> \o u : t, u \in Tokens}
    \cup {<<>>, Str_gpt, Str_opu_s}
RequestedModels == {NoModel} \cup {ModelName(t) : t \in NameTexts}
Fallbacks == {"sonnet", "local"}

FnMapModel(requestModel, defaultModel) ==
    /\ NoCallYet
    /\ ret' = Returned("mapModel", [requestModel |-> requestModel, defaultModel |-> defaultModel],
                       mapModel(requestModel, defaultModel))
    /\ UNCHANGED hist
    /\ Frame

(* The phrases handleError looks for, as text *)
Phrases ==
    {"rate limit", "quota", "cooldown", "capacity",
     "not authorized", "credential", "login", "ETIMEDOUT",
     "timeout", "session", "Session not found"}
PhraseText(phrase) ==
    CASE phrase = "rate limit" -> <<114, 97, 116, 101, 32, 108, 105, 109, 105, 116>>
      [] phrase = "quota" -> <<113, 117, 111, 116, 97>>
      [] phrase = "cooldown" -> <<99, 111, 111, 108, 100, 111, 119, 110>>
      [] phrase = "capacity" -> <<99, 97, 112, 97, 99, 105, 116, 121>>
      [] phrase = "not authorized" -> <<110, 111, 116, 32, 97, 117, 116, 104, 111, 114, 105, 122, 101, 100>>
      [] phrase = "credential" -> <<99, 114, 101, 100, 101, 110, 116, 105, 97, 108>>
      [] phrase = "login" -> <<108, 111, 103, 105, 110>>
      [] phrase = "ETIMEDOUT" -> <<69, 84, 73, 77, 69, 68, 79, 85, 84>>
      [] phrase = "timeout" -> <<116, 105, 109, 101, 111, 117, 116>>
      [] phrase = "session" -> <<115, 101, 115, 115, 105, 111, 110>>
      [] phrase = "Session not found" -> <<83, 101, 115, 115, 105, 111, 110, 32, 110, 111, 116, 32, 102, 111, 117, 110, 100>>

Str_Unknown_error == <<85, 110, 107, 110, 111, 119, 110, 32, 101, 114, 114, 111, 114>>

(* (error instanceof Error ? error.message : String(error)) || 'Unknown error' *)
MessageOf(text) == IF text = <<>> THEN Str_Unknown_error ELSE text

(* the error that handleError classifies, from the text of its message *)
MessagePhrases(text) == {p \in Phrases : TextIncludes(text, PhraseText(p))}
ErrorOf(text, killed) == Err(MessagePhrases(MessageOf(text)), killed)

(* `Claude CLI error: ${message.substring(0, 200)}`: the part taken from the  *)
(* error, present in the internal_error body only                             *)
handleErrorExcerpt(text, killed) ==
    IF handleErrorBody(ErrorOf(text, killed)).code = "internal_error"
    THEN SomeText(Substring0(MessageOf(text), ErrorExcerptChars))
    ELSE NullText

(* Error messages: none, one phrase, two phrases in either order, and texts   *)
(* without a phrase around the length of the excerpt                          *)
Filler(n) == [i \in 1..n |-> 120]
ErrorTexts ==
    {<<>>}
    \cup {PhraseText(p) : p \in Phrases}
    \cup {PhraseText(p) \o <<Ch_space>> \o PhraseText(q) : p, q \in Phrases}
    \cup {Filler(n) : n \in (ErrorExcerptChars - 1)..(ErrorExcerptChars + 1)}

(* The registry at the time of a call *)
Registries ==
    { <<>>,
      CreateSessions(<<>>, <<"c1", 0, 0>>, 1, 0),
      CreateSessions(CreateSessions(<<>>, <<"c1", 0, 0>>, 1, 0), <<"c2", 0, 0>>, 2, 0) }

FnHandleError(text, killed, convKey) ==
    /\ NoCallYet
    /\ ret' = Returned("handleError",
                       [message |-> text, killed |-> killed, convKey |-> convKey,
                        registry |-> sessions],
                       [body |-> handleErrorBody(ErrorOf(text, killed)),
                        excerpt |-> handleErrorExcerpt(text, killed)])
    /\ sessions' = handleErrorSessions(sessions, ErrorOf(text, killed), convKey)
    /\ UNCHANGED <<now, uuidCount, hist, nreq, inv, res, hs, lastGet, cleanupInterval>>

(* The state in which a function is called: some registry, no request yet *)
FunctionInit ==
    /\ sessions \in Registries
    /\ now = 0
    /\ uuidCount = Cardinality(DOMAIN sessions)
    /\ hist = StreamList
    /\ nreq = 0
    /\ inv = [r \in Slots |-> NoInvocation]
    /\ res = [r \in Slots |-> NewResponse]
    /\ hs = [r \in Slots |-> IdleHandler]
    /\ lastGet = NoGet
    /\ ret = NoReturn
    /\ cleanupInterval = NewInterval

FunctionNext ==
    \/ \E o \in CallOptions : FnCallClaudeSync(o)
    \/ \E o \in CallOptions : FnCallClaudeStream(o)
    \/ \E l \in MessageLists : FnTranslateFirstTurn(l)
    \/ \E l \in MessageLists : FnTranslateContinueTurn(l)
    \/ \E m \in RequestedModels, d \in Fallbacks : FnMapModel(m, d)
    \/ \E t \in ErrorTexts, k \in BOOLEAN, c \in TrackerKeys : FnHandleError(t, k, c)

FunctionSpec == FunctionInit /\ [][FunctionNext]_vars

----------------------------------------------------------------------------
(* Properties of handleStream *)

IsSpanStart(e) ==
    e.type = "stream_event" /\ e.inner = "content_block_start" /\ e.block = "thinking"
IsSpanStop(e) == e.type = "stream_event" /\ e.inner = "content_block_stop"

(* event i lies after a thinking content_block_start and before the next stop *)
InThinkingSpan(evs, i) ==
    \E j \in 1..(i - 1) : IsSpanStart(evs[j]) /\ \A k \in (j + 1)..i : ~IsSpanStop(evs[k])

(* a thinking block is open when event i arrives *)
BlockOpenBefore(evs, i) ==
    \E j \in 1..(i - 1) : IsSpanStart(evs[j]) /\ \A k \in (j + 1)..(i - 1) : ~IsSpanStop(evs[k])

ChunkPositions(r) == {p \in 1..Len(res[r].out) : res[r].out[p].kind = "chunk"}
DonePositions(r) == {p \in 1..Len(res[r].out) : res[r].out[p].kind = "[DONE]"}
ErrorPositions(r) == {p \in 1..Len(res[r].out) : res[r].out[p].kind = "error"}
ResultSeen(r) == \E i \in 1..Len(hs[r].events) : hs[r].events[i].type = "result"

(* C1: no outbound frame carries text of an event that lies between a thinking *)
(* content_block_start and the next content_block_stop, nor of a delta of type *)
(* thinking_delta; every text frame carries the text of the event it is from.  *)
C1_NoThinkingText ==
    \A r \in Slots : \A p \in ChunkPositions(r) :
        LET i == res[r].out[p].src
            evs == hs[r].events
        IN  /\ i \in 1..Len(evs)
            /\ res[r].out[p].text = evs[i].text
            /\ ~InThinkingSpan(evs, i)
            /\ evs[i].dtype # "thinking_delta"

(* C1 witness: a text-bearing event arrived inside a thinking block *)
C1_Witness ==
    \E i \in 1..Len(hs[1].events) :
        InThinkingSpan(hs[1].events, i) /\ Len(hs[1].events[i].text) > 0

(* The events the original C2 says are forwarded *)
Eligible(evs, i) ==
    /\ evs[i].type = "stream_event"
    /\ ~BlockOpenBefore(evs, i)
    /\ evs[i].dtype # "thinking_delta"
    /\ Len(evs[i].text) > 0

ForwardedOnce(r, i) ==
    Cardinality({p \in ChunkPositions(r) :
                    res[r].out[p].src = i /\ res[r].out[p].text = hs[r].events[i].text}) = 1

InSourceOrder(r) ==
    \A p, q \in ChunkPositions(r) : p < q => res[r].out[p].src < res[r].out[q].src

(* C2 as stated: every stream_event that arrives while no thinking block is    *)
(* open, is not a thinking_delta and carries a non-empty text is forwarded as  *)
(* exactly one text frame, in source order.                                    *)
C2_Original ==
    \A r \in Slots :
        /\ \A i \in 1..Len(hs[r].events) : Eligible(hs[r].events, i) => ForwardedOnce(r, i)
        /\ InSourceOrder(r)

(* C2 amended: the same, for every such event that is not itself the           *)
(* content_block_start of a thinking block (that event is suppressed).         *)
C2_ForwardedInOrder ==
    \A r \in Slots :
        /\ \A i \in 1..Len(hs[r].events) :
              (Eligible(hs[r].events, i) /\ ~IsSpanStart(hs[r].events[i])) => ForwardedOnce(r, i)
        /\ InSourceOrder(r)

(* C2 witness: two text events, the second after a thinking block was closed,  *)
(* both forwarded                                                              *)
C2_Witness ==
    /\ Cardinality(ChunkPositions(1)) = 2
    /\ \E j \in 1..Len(hs[1].events) : IsSpanStop(hs[1].events[j])

(* C3: a streaming response that is closed holds exactly one [DONE], as the    *)
(* last thing written, nothing is written after the close, and a result event  *)
(* is the last event taken and leaves the response closed.                     *)
C3_OneTerminalMarker ==
    \A r \in Slots :
        /\ (hs[r].stream /\ WritableEnded(res[r])) =>
              /\ Cardinality(DonePositions(r)) = 1
              /\ Len(res[r].out) \in DonePositions(r)
              /\ res[r].endedAt = Len(res[r].out)
        /\ \A i \in 1..Len(hs[r].events) :
              hs[r].events[i].type = "result" =>
                  i = Len(hs[r].events) /\ WritableEnded(res[r])

(* C3 witness: a response closed by a result event after one text frame *)
C3_Witness ==
    /\ ResultSeen(1) /\ WritableEnded(res[1])
    /\ Cardinality(ChunkPositions(1)) = 1

CleanExitNoResult(r) ==
    hs[r].stream /\ hs[r].closeEmitted /\ ~CloseRejects(hs[r].exitCode) /\ ~ResultSeen(r)

Terminated(r) ==
    /\ hs[r].touches >= 1
    /\ Cardinality(DonePositions(r)) = 1
    /\ WritableEnded(res[r])

FailedExitNoResult(r) ==
    hs[r].stream /\ hs[r].closeEmitted /\ CloseRejects(hs[r].exitCode) /\ ~ResultSeen(r)

ErrorReported(r) ==
    /\ WritableEnded(res[r])
    /\ Cardinality(ErrorPositions(r)) = 1
    /\ Cardinality(DonePositions(r)) = 1
    /\ \A p \in ErrorPositions(r) : p + 1 \in DonePositions(r) /\ p + 1 = Len(res[r].out)

----------------------------------------------------------------------------
(* Properties of session handling *)

(* C6: without X-Conversation-Id, a request whose list extends the list of an  *)
(* earlier request resolves to the same conversation key as that request.      *)
C6_SameKeyAcrossTurns ==
    [][\A r, q \in Slots :
          (/\ inv'[r] # inv[r] /\ inv'[r].made /\ inv'[r].hdr = NoHeader
           /\ inv[q].made /\ inv[q].hdr = NoHeader
           /\ inv'[r].nmsgs > inv[q].nmsgs)
          => inv'[r].convKey = inv[q].convKey]_vars

SessionFlagPositions(args) ==
    {i \in 1..Len(args) : args[i] = Flag("--session-id") \/ args[i] = Flag("--resume")}

CarriesOnce(args, flag, id) ==
    /\ Cardinality(SessionFlagPositions(args)) = 1
    /\ \A i \in SessionFlagPositions(args) :
          args[i] = Flag(flag) /\ i < Len(args) /\ args[i + 1] = NumArg(id)

C8_StableSessionId ==
    [][/\ \A k \in DOMAIN sessions \cap DOMAIN sessions' :
             sessions'[k].claudeSessionId # sessions[k].claudeSessionId
                => now - sessions[k].lastUsedAt > TtlMs
       /\ \A r \in Slots :
             (inv'[r] # inv[r] /\ inv'[r].made /\ inv'[r].convKey \in DOMAIN sessions')
                => sessions'[inv'[r].convKey].claudeSessionId = inv'[r].opts.sessionId]_vars

(* C8 witness: a touched entry and a continuation invocation with its identifier *)
C8_Witness ==
    \E r \in Slots :
        /\ inv[r].made /\ inv[r].opts.continueSession
        /\ inv[r].convKey \in DOMAIN sessions
        /\ sessions[inv[r].convKey].turnCount >= 1
        /\ sessions[inv[r].convKey].claudeSessionId = inv[r].opts.sessionId

(* C9: a continuation invocation never carries a system instruction. *)
C9_NoSystemPromptOnContinue ==
    \A r \in Slots :
        (inv[r].made /\ inv[r].opts.continueSession) =>
            /\ inv[r].opts.systemPrompt.isNull
            /\ \A i \in 1..Len(inv[r].args) : inv[r].args[i] # Flag("--system-prompt")

(* C9 witness: a continuation of a request that contains a system message *)
C9_Witness ==
    \E r \in Slots : inv[r].made /\ inv[r].opts.continueSession /\ inv[r].hasSystem

(* C10: get returns a session only if now - lastUsedAt <= ttl; an older entry  *)
(* is removed and null returned; an entry exactly at the boundary is returned. *)
C10_LazyExpiry ==
    /\ lastGet.returned => (lastGet.had /\ lastGet.age <= TtlMs)
    /\ (lastGet.had /\ lastGet.age > TtlMs) => (~lastGet.returned /\ ~lastGet.kept)
    /\ (lastGet.had /\ lastGet.age <= TtlMs) => (lastGet.returned /\ lastGet.kept)

(* C10 witness: a lookup of an entry exactly at the TTL boundary *)
C10_Witness == lastGet.had /\ lastGet.age = TtlMs /\ lastGet.returned

----------------------------------------------------------------------------
(* Properties of the SessionTracker and of request handling *)

(* C11: after create(k) an immediate get(k) returns a session with turnCount 0 *)
(* and messageCount 0; touch(k) on a present key adds exactly 1 to turnCount   *)
(* and to messageCount, sets lastUsedAt to now and leaves the identifier and   *)
(* the other entries alone; touch on an absent key leaves the registry as it   *)
(* is; nothing but a touch moves the counters of a session.                    *)
C11_CreateTouchRoundTrip ==
    [][\A k \in TrackerKeys :
          /\ TrCreate(k) =>
                /\ GetFound(sessions', k, now')
                /\ GetSessions(sessions', k, now') = sessions'
                /\ sessions'[k].turnCount = 0 /\ sessions'[k].messageCount = 0
          /\ TrTouch(k) =>
                IF Has(sessions, k)
                THEN /\ DOMAIN sessions' = DOMAIN sessions
                     /\ sessions'[k].turnCount = sessions[k].turnCount + 1
                     /\ sessions'[k].messageCount = sessions[k].messageCount + 1
                     /\ sessions'[k].lastUsedAt = now
                     /\ sessions'[k].claudeSessionId = sessions[k].claudeSessionId
                     /\ \A q \in DOMAIN sessions \ {k} : sessions'[q] = sessions[q]
                ELSE sessions' = sessions
          /\ (/\ Has(sessions, k) /\ Has(sessions', k)
              /\ sessions'[k].claudeSessionId = sessions[k].claudeSessionId
              /\ sessions'[k] # sessions[k]) => TrTouch(k)]_vars

(* C11 witness: a session that was touched three times, later than its creation *)
C11_Witness ==
    \E k \in TrackerKeys :
        /\ Has(sessions, k) /\ sessions[k].turnCount = 3 /\ sessions[k].messageCount = 3
        /\ sessions[k].lastUsedAt = now /\ now > 0

(* the handler run in slot r calls sessions.touch in this step *)
TouchStep(r) == nreq' = nreq /\ hs'[r].touches = hs[r].touches + 1

TouchStepsOn(k) == Cardinality({r \in Slots : TouchStep(r) /\ hs'[r].convKey = k})

(* C12: a request calls touch at most once, and exactly once when it has       *)
(* completed its exchange (sync reply parsed, stream ended by a result event   *)
(* or by clean closure); the turnCount of a session never decreases and grows  *)
(* by exactly one for each such call on its key.                               *)
C12_OneTouchPerExchange ==
    [][/\ \A r \in Slots :
             /\ hs'[r].touches <= 1
             /\ (hs'[r].pc = "done" /\ Succeeded(r)') => hs'[r].touches = 1
       /\ \A k \in DOMAIN sessions' :
             IF k \in DOMAIN sessions
                /\ sessions'[k].claudeSessionId = sessions[k].claudeSessionId
             THEN sessions'[k].turnCount = sessions[k].turnCount + TouchStepsOn(k)
             ELSE sessions'[k].turnCount = TouchStepsOn(k)]_vars

(* C12 witness: a stream that ended cleanly without a result event completed   *)
(* the second exchange of its session                                          *)
C12_Witness ==
    \E r \in Slots :
        /\ hs[r].stream /\ hs[r].pc = "done" /\ Succeeded(r) /\ ~ResultSeen(r)
        /\ hs[r].touches = 1
        /\ hs[r].convKey \in DOMAIN sessions
        /\ sessions[hs[r].convKey].turnCount = 2

(* the child of the stream in slot r failed reporting a lost session, and the  *)
(* handler can no longer learn of it                                           *)
SessionFailureUnreported(r) ==
    /\ hs[r].stream /\ hs[r].pc = "awaitClose" /\ hs[r].closeEmitted
    /\ CloseRejects(hs[r].exitCode)
    /\ "Session not found" \in hs[r].stderr

RateLimitPhrases == {"quota", "rate limit", "cooldown"}

(* the non-streaming request in slot r has run the backend and it failed *)
SyncFailed(r) ==
    /\ inv[r].made /\ ~hs[r].stream /\ hs[r].pc = "done"
    /\ hs[r].exitCode # 0

(* C14: a non-streaming request whose backend invocation failed with a message *)
(* containing 'quota', 'rate limit' or 'cooldown' is answered with status 429  *)
(* and an error of type rate_limit_error, written by handleChatCompletion      *)
(* itself (not the 500 of the outer handler), and the response is closed.      *)
C14_RateLimitIs429 ==
    \A r \in Slots :
        (SyncFailed(r) /\ hs[r].stderr \cap RateLimitPhrases # {}) =>
            /\ res[r].status = 429
            /\ res[r].body = ErrorBody(429, "rate_limit_error", "rate_limit_exceeded")
            /\ WritableEnded(res[r])
            /\ hs[r].touches = 0

(* C14 witness: a failed non-streaming continuation whose stderr says 'quota' *)
C14_Witness ==
    \E r \in Slots :
        SyncFailed(r) /\ "quota" \in hs[r].stderr /\ inv[r].opts.continueSession

ErrorStatuses == {401, 429, 502, 504}

RejectedBody(r) == hs[r].pc = "done" /\ hs[r].body \in InvalidBodies

(* C16: a request whose body is not valid JSON, or whose messages field is     *)
(* absent, not an array or empty, is answered with status 400 and an           *)
(* invalid_request_error.                                                      *)
C16_InvalidBodyIs400 ==
    \A r \in Slots :
        RejectedBody(r) =>
            res[r].status = 400 /\ res[r].body.type = "invalid_request_error"

(* handling the request in slot r raised a failure that handleError never saw: *)
(* the translation threw, or the validation threw, or the server process ended *)
(* on the 'error' event of a child that could not be spawned                   *)
TranslationThrew(r) ==
    hs[r].pc = "done" /\ ~inv[r].made /\ ~hs[r].stream /\ hs[r].body = ValidBody
ValidationThrew(r) == hs[r].pc = "done" /\ Validation(hs[r].body).threw
UnhandledFailure(r) == TranslationThrew(r) \/ ValidationThrew(r) \/ hs[r].pc = "crashed"

(* C17: a request whose handling raised a failure outside the classification   *)
(* path has a well-formed error envelope written and its response closed.      *)
C17_UnhandledFailureAnswered ==
    \A r \in Slots :
        UnhandledFailure(r) =>
            /\ WritableEnded(res[r])
            /\ res[r].body = ErrorBody(500, "server_error", "internal_error")

(* the registry holds an entry for k whose TTL has not elapsed *)
Unexpired(k) == k \in DOMAIN sessions /\ now - sessions[k].lastUsedAt <= TtlMs

(* C18: create is executed (a new identifier is generated) only in a step that *)
(* begins with no unexpired entry under the key it looked up, and no step      *)
(* replaces the identifier of an unexpired entry, whatever other requests are  *)
(* in flight.                                                                  *)
C18_CreateOnlyWhenAbsent ==
    [][/\ uuidCount' # uuidCount =>
             /\ uuidCount' = uuidCount + 1
             /\ ~lastGet'.returned
             /\ ~Unexpired(lastGet'.key)
       /\ \A k \in DOMAIN sessions' :
             Unexpired(k) => sessions'[k].claudeSessionId = sessions[k].claudeSessionId]_vars

(* C18 witness: two requests for one key in flight together, the first a first *)
(* turn still streaming, the second a continuation of the session it created   *)
C18_Witness ==
    \E r, q \in Slots :
        /\ r # q
        /\ hs[r].stream /\ hs[r].pc = "reading" /\ ~inv[r].opts.continueSession
        /\ hs[q].stream /\ hs[q].pc = "reading" /\ inv[q].opts.continueSession
        /\ inv[q].convKey = inv[r].convKey
        /\ inv[q].opts.sessionId = inv[r].opts.sessionId

(* C19: while a non-streaming request waits for the backend, the handler of an *)
(* in-flight streaming response can take its next step.                        *)
C19_SyncBlocksOnlyOwner ==
    \A r, q \in Slots :
        (/\ hs[r].pc = "blocked"
         /\ hs[q].stream /\ hs[q].pc = "reading")
        => ENABLED LoopEnd(q)

(* C20: a streaming request is not finished being handled before its child    *)
(* process has exited and the exit has been received.                          *)
C20_ChildReapedBeforeDone ==
    \A r \in Slots : (hs[r].stream /\ hs[r].pc = "done") => hs[r].closeEmitted

----------------------------------------------------------------------------
(* Properties of the command line *)

(* C21: no argument of a backend invocation carries text taken from the       *)
(* request's messages; that text reaches the backend on standard input only.  *)
C21_NoMessageTextInArgs ==
    \A r \in Slots :
        inv[r].made => \A i \in 1..Len(inv[r].args) : inv[r].args[i].kind # "text"

HasFlag(args, flag) == \E i \in 1..Len(args) : args[i] = Flag(flag)

(* the flag occurs once and is followed by the value *)
FlagValue(args, flag, value) ==
    /\ Cardinality({i \in 1..Len(args) : args[i] = Flag(flag)}) = 1
    /\ \A i \in 1..Len(args) : args[i] = Flag(flag) => (i < Len(args) /\ args[i + 1] = value)

(* C22: callClaudeStream always passes --output-format stream-json with       *)
(* --verbose and --include-partial-messages, callClaudeSync always passes     *)
(* --output-format json without them, whatever stream flag the options hold,  *)
(* and both pass --max-turns.                                                 *)
C22_FormatFlags ==
    /\ ret.call = "callClaudeStream" =>
          /\ FlagValue(ret.output, "--output-format", StrArg("stream-json"))
          /\ HasFlag(ret.output, "--verbose")
          /\ HasFlag(ret.output, "--include-partial-messages")
          /\ FlagValue(ret.output, "--max-turns", NumArg(ConfigMaxTurns))
    /\ ret.call = "callClaudeSync" =>
          /\ FlagValue(ret.output, "--output-format", StrArg("json"))
          /\ ~HasFlag(ret.output, "--verbose")
          /\ ~HasFlag(ret.output, "--include-partial-messages")
          /\ FlagValue(ret.output, "--max-turns", NumArg(ConfigMaxTurns))

(* C22 witness: callClaudeStream called with options whose stream flag is off *)
C22_Witness ==
    /\ ret.call = "callClaudeStream" /\ ~ret.input.stream
    /\ HasFlag(ret.output, "--verbose")

----------------------------------------------------------------------------
(* Properties of the tracker's timer and size *)

(* C23: once destroy() has been called the periodic cleanup does not run      *)
(* again, and a call of destroy(), the first or a later one, changes no entry *)
(* of the registry and leaves the timer cleared.                              *)
C23_DestroyStopsCleanup ==
    [][/\ ~cleanupInterval'.ranAfterDestroy
       /\ cleanupInterval'.destroyCalls # cleanupInterval.destroyCalls =>
             /\ sessions' = sessions
             /\ ~cleanupInterval'.active
       /\ cleanupInterval.destroyCalls > 0 => ~ENABLED Cleanup]_vars

(* C23 witness: destroy() was called twice while the registry held an entry   *)
(* whose TTL has elapsed                                                      *)
C23_Witness ==
    /\ cleanupInterval.destroyCalls = 2
    /\ \E k \in DOMAIN sessions : now - sessions[k].lastUsedAt > TtlMs

ExpiredKeys == {k \in DOMAIN sessions : now - sessions[k].lastUsedAt > TtlMs}
UnexpiredKeys == {k \in DOMAIN sessions : now - sessions[k].lastUsedAt <= TtlMs}

----------------------------------------------------------------------------
(* Properties of the translator *)

Str_Blank == <<Ch_newline, Ch_newline>>

(* the texts of the system messages of a list, in the order of the list *)
RECURSIVE SystemTexts(_)
SystemTexts(messages) ==
    IF messages = <<>> THEN <<>>
    ELSE IF Head(messages).role = "system"
         THEN <<extractText(Head(messages).content)>> \o SystemTexts(Tail(messages))
         ELSE SystemTexts(Tail(messages))

(* the texts of a list one after the other, with sep between neighbours *)
RECURSIVE Separated(_, _)
Separated(texts, sep) ==
    IF texts = <<>> THEN <<>>
    ELSE IF Tail(texts) = <<>> THEN Head(texts)
    ELSE Head(texts) \o sep \o Separated(Tail(texts), sep)

RoleLabel(role) ==
    IF role = "user" THEN Str_UserLabel
    ELSE IF role = "assistant" THEN Str_AssistantLabel
    ELSE <<>>

(* every message that is not a system message, as label and text, in order *)
RECURSIVE LabelledTexts(_)
LabelledTexts(messages) ==
    IF messages = <<>> THEN <<>>
    ELSE IF Head(messages).role = "system" THEN LabelledTexts(Tail(messages))
    ELSE <<RoleLabel(Head(messages).role) \o extractText(Head(messages).content)>>
         \o LabelledTexts(Tail(messages))

FirstTurnResult(messages, out) ==
    /\ ~out.threw
    /\ out.isFirstTurn
    /\ IF SystemTexts(messages) = <<>> THEN out.systemPrompt.isNull
       ELSE /\ ~out.systemPrompt.isNull
            /\ out.systemPrompt.text = Separated(SystemTexts(messages), <<Ch_newline>>)
    /\ out.prompt = Separated(LabelledTexts(messages), Str_Blank)

EveryRoleLabelled(messages) ==
    \A i \in 1..Len(messages) :
        messages[i].role # "system" => RoleLabel(messages[i].role) # <<>>

(* C25 as stated: for every non-empty list translateFirstTurn returns         *)
(* isFirstTurn = true, the newline-join of the system messages' texts as      *)
(* systemPrompt (null when there are none) and a prompt in which every        *)
(* non-system message appears once, in order, prefixed by its role label and  *)
(* separated by blank lines; the input list is not modified.                  *)
C25_Original ==
    ret.call = "translateFirstTurn" =>
        /\ FirstTurnResult(ret.input, ret.output)
        /\ EveryRoleLabelled(ret.input)
        /\ hist = ret.input

(* C25 amended: the same, where the messages prefixed by a role label are     *)
(* those of role user ('User: ') and assistant ('Assistant: '); a message of  *)
(* any other non-system role appears as its bare text.                        *)
C25_FirstTurnTranslation ==
    ret.call = "translateFirstTurn" =>
        /\ FirstTurnResult(ret.input, ret.output)
        /\ hist = ret.input

(* C25 witness: a list with a system message after a user message and with a  *)
(* message of another role                                                    *)
C25_Witness ==
    /\ ret.call = "translateFirstTurn"
    /\ \E i, j, k \in 1..Len(ret.input) :
          /\ i < j /\ ret.input[i].role = "user" /\ ret.input[j].role = "system"
          /\ ret.input[k].role = "tool"
    /\ ~ret.output.systemPrompt.isNull

(* the text of the user message nearest to the end of a list that holds one *)
RECURSIVE LastUserText(_)
LastUserText(messages) ==
    IF messages[Len(messages)].role = "user"
    THEN extractText(messages[Len(messages)].content)
    ELSE LastUserText(SubSeq(messages, 1, Len(messages) - 1))

(* C26: translateContinueTurn returns the text of the last message of role    *)
(* user, whatever follows it, with systemPrompt null and isFirstTurn false;   *)
(* on a list without a user message it throws; the list is not modified.      *)
C26_ContinueTurnTranslation ==
    ret.call = "translateContinueTurn" =>
        /\ IF \A i \in 1..Len(ret.input) : ret.input[i].role # "user"
           THEN ret.output.threw
           ELSE /\ ~ret.output.threw
                /\ ret.output.prompt = LastUserText(ret.input)
                /\ ret.output.systemPrompt.isNull
                /\ ~ret.output.isFirstTurn
        /\ hist = ret.input

(* C26 witness: two different user messages followed by a message of another  *)
(* role; the text of the second is returned                                   *)
C26_Witness ==
    /\ ret.call = "translateContinueTurn" /\ ~ret.output.threw
    /\ \E i, j, k \in 1..Len(ret.input) :
          /\ i < j /\ j < k
          /\ ret.input[i].role = "user" /\ ret.input[j].role = "user"
          /\ ret.input[k].role # "user"
          /\ extractText(ret.input[i].content) # extractText(ret.input[j].content)
          /\ ret.output.prompt = extractText(ret.input[j].content)

(* the token occurs in the text, each of its letters in either case *)
ContainsAnyCase(text, token) ==
    \E i \in 1..(Len(text) - Len(token) + 1) :
        \A j \in 1..Len(token) : text[i + j - 1] \in {token[j], token[j] - 32}

Named(requestModel, token) ==
    requestModel.present /\ ContainsAnyCase(requestModel.text, token)

(* C27 as stated: mapModel returns 'haiku', 'opus' or 'sonnet' whenever the   *)
(* requested name contains that token, in any letter case, anywhere; it       *)
(* returns the fallback when the name is absent, empty or holds no token; the *)
(* result is one of the three tiers or the fallback.                          *)
C27_Original ==
    ret.call = "mapModel" =>
        /\ Named(ret.input.requestModel, Str_haiku) => ret.output = "haiku"
        /\ Named(ret.input.requestModel, Str_opus) => ret.output = "opus"
        /\ Named(ret.input.requestModel, Str_sonnet) => ret.output = "sonnet"
        /\ (\A t \in Tokens : ~Named(ret.input.requestModel, t)) =>
              ret.output = ret.input.defaultModel
        /\ ret.output \in {"haiku", "opus", "sonnet", ret.input.defaultModel}

(* C27 amended: the same, where a name that contains several tokens maps to   *)
(* the first of haiku, opus, sonnet that it contains.                         *)
C27_ModelMapping ==
    ret.call = "mapModel" =>
        /\ Named(ret.input.requestModel, Str_haiku) => ret.output = "haiku"
        /\ (Named(ret.input.requestModel, Str_opus) /\ ~Named(ret.input.requestModel, Str_haiku))
              => ret.output = "opus"
        /\ (/\ Named(ret.input.requestModel, Str_sonnet)
            /\ ~Named(ret.input.requestModel, Str_haiku)
            /\ ~Named(ret.input.requestModel, Str_opus)) => ret.output = "sonnet"
        /\ (\A t \in Tokens : ~Named(ret.input.requestModel, t)) =>
              ret.output = ret.input.defaultModel
        /\ ret.output \in {"haiku", "opus", "sonnet", ret.input.defaultModel}

(* C27 witness: a name with the token in mixed case inside other text, mapped *)
(* to opus although the fallback is another tier                              *)
C27_Witness ==
    /\ ret.call = "mapModel" /\ ret.output = "opus" /\ ret.input.defaultModel = "sonnet"
    /\ ret.input.requestModel.text = Str_Prefix \o Spelling(Str_opus, {1, 3}) \o Str_Suffix

----------------------------------------------------------------------------
(* Properties of the error classification *)

(* the text holds the words, letter for letter *)
Holds(text, words) ==
    \E i \in 0..(Len(text) - Len(words)) : \A j \in 1..Len(words) : text[i + j] = words[j]

HoldsAny(text, phrases) == \E p \in phrases : Holds(text, PhraseText(p))

(* the outcome the order of the tests gives a message *)
ExpectedOutcome(text, killed) ==
    IF HoldsAny(text, {"rate limit", "quota", "cooldown", "capacity"})
    THEN ErrorBody(429, "rate_limit_error", "rate_limit_exceeded")
    ELSE IF HoldsAny(text, {"not authorized", "credential", "login"})
    THEN ErrorBody(401, "authentication_error", "invalid_api_key")
    ELSE IF killed \/ HoldsAny(text, {"ETIMEDOUT", "timeout"})
    THEN ErrorBody(504, "timeout_error", "timeout")
    ELSE IF HoldsAny(text, {"session", "Session not found"})
    THEN ErrorBody(502, "server_error", "session_expired")
    ELSE ErrorBody(502, "server_error", "internal_error")

IsPrefix(p, text) == Len(p) <= Len(text) /\ SubSeq(text, 1, Len(p)) = p

(* C28: handleError gives every failure the outcome of the first class it     *)
(* matches in the order rate limit (429), authentication (401), timeout (504), *)
(* session error (502 session_expired), other (502 internal_error, carrying   *)
(* at most the first 200 characters of the message); the registry is changed  *)
(* only by the session-error outcome, which removes the entry of the          *)
(* conversation key and no other.                                             *)
C28_FirstMatchClassification ==
    ret.call = "handleError" =>
        /\ ret.output.body = ExpectedOutcome(ret.input.message, ret.input.killed)
        /\ IF ret.output.body.code = "internal_error"
           THEN /\ ~ret.output.excerpt.isNull
                /\ Len(ret.output.excerpt.text) <= ErrorExcerptChars
                /\ IF ret.input.message = <<>>
                   THEN ret.output.excerpt.text = Str_Unknown_error
                   ELSE /\ IsPrefix(ret.output.excerpt.text, ret.input.message)
                        /\ Len(ret.input.message) <= ErrorExcerptChars
                              => ret.output.excerpt.text = ret.input.message
           ELSE ret.output.excerpt.isNull
        /\ IF ret.output.body.code = "session_expired"
           THEN /\ DOMAIN sessions = DOMAIN ret.input.registry \ {ret.input.convKey}
                /\ \A k \in DOMAIN sessions : sessions[k] = ret.input.registry[k]
           ELSE sessions = ret.input.registry

(* C28 witness: a message that mentions the quota and the session, while the  *)
(* registry holds the entry of the conversation: 429, and the entry is kept   *)
C28_Witness ==
    /\ ret.call = "handleError"
    /\ Holds(ret.input.message, PhraseText("quota"))
    /\ Holds(ret.input.message, PhraseText("session"))
    /\ ret.output.body.status = 429
    /\ ret.input.convKey \in DOMAIN sessions

----------------------------------------------------------------------------
(* Properties of overlapping requests *)

(* C29: a continuation (--resume <id>) is issued only for a session whose     *)
(* first turn has completed successfully, that is, whose entry has been       *)
(* touched at least once.                                                     *)
C29_ResumeOnlyAfterFirstTurn ==
    [][\A r \in Slots :
          (inv'[r] # inv[r] /\ inv'[r].made /\ inv'[r].opts.continueSession) =>
              /\ inv'[r].convKey \in DOMAIN sessions
              /\ sessions[inv'[r].convKey].claudeSessionId = inv'[r].opts.sessionId
              /\ sessions[inv'[r].convKey].turnCount >= 1]_vars

(* C30: the touch a completing request performs acts on the session its own   *)
(* invocation used: the entry under its key, if there is one, still carries   *)
(* the identifier the request was sent with.                                  *)
C30_TouchOwnSession ==
    [][\A r \in Slots :
          (TouchStep(r) /\ hs[r].convKey \in DOMAIN sessions) =>
              sessions[hs[r].convKey].claudeSessionId = inv[r].opts.sessionId]_vars

----------------------------------------------------------------------------
(* Properties of failed invocations *)

(* the backend invocation of the request in slot r has failed: execSync threw *)
(* or its output did not parse, or the child of a stream exited non-zero      *)
InvocationFailed(r) ==
    /\ inv[r].made
    /\ IF hs[r].stream
       THEN hs[r].closeEmitted /\ CloseRejects(hs[r].exitCode)
       ELSE hs[r].pc = "done" /\ ~Succeeded(r)

(* C31: a request whose backend invocation has failed (timeout, non-zero      *)
(* exit, unparsable sync output, stream failure) has not called touch.        *)
C31_FailedInvocationNeverTouches ==
    \A r \in Slots : InvocationFailed(r) => hs[r].touches = 0

(* the stream in slot r was reported as successful: the terminal frame with   *)
(* finish_reason 'stop' was written and the session was touched               *)
ReportedSuccess(r) ==
    /\ hs[r].stream
    /\ \E i \in 1..Len(res[r].out) : res[r].out[i].kind = "stop"
    /\ hs[r].touches >= 1

(* C32: a streaming request is reported as successful only if its child       *)
(* exits with code 0 or null; once the child has exited with a non-zero code  *)
(* the response carries no terminal 'stop' frame and the session was not      *)
(* touched, also when a result event came before the exit.                    *)
C32_SuccessOnlyOnCleanExit ==
    \A r \in Slots :
        (hs[r].stream /\ hs[r].closeEmitted /\ CloseRejects(hs[r].exitCode)) =>
            /\ ~ReportedSuccess(r)
            /\ \A i \in 1..Len(res[r].out) : res[r].out[i].kind # "stop"
            /\ hs[r].touches = 0

====
